---- MODULE Spec2Model ----
(***************************************************************************)
(* The driver of LinearElastic.cpp (main, lines 51-381): a two-material    *)
(* cantilever beam solved with linear elasticity.  The finite-element      *)
(* library (mesh, spaces, assembly, solver) is the environment: what it    *)
(* returns is drawn from small sets.  Real values are integers or          *)
(* fractions num/den.  Arrays keep the 0-based indices of the source.      *)
(*                                                                         *)
(* Five specifications share the module:                                   *)
(*   Spec        main() from step 3 to step 16, the mesh summarised by its *)
(*               dimension, its largest attribute ids and element count;   *)
(*   SpecHist    the attribute histogram of lines 101-125 on a mesh given  *)
(*               element by element;                                       *)
(*   SpecRefine  the refinement count of lines 149-154 over element counts *)
(*               up to and beyond the 5000 target;                         *)
(*   SpecBuild   the isotropic elasticity tensor of one material;          *)
(*   SpecRecover the per-element stress write on a patch of elements of    *)
(*               the stress space of lines 281-295.                        *)
(***************************************************************************)
EXTENDS Integers, Sequences, FiniteSets, TLC

VARIABLES
  pc,            \* position in main()
  dim,           \* mesh->Dimension()
  nurbs,         \* mesh->NURBSext != NULL
  visualization, \* option -vis / -no-vis
  attrMax,       \* mesh->attributes.Max()
  bdrAttrMax,    \* mesh->bdr_attributes.Max()
  ne0,           \* mesh->GetNE() of the mesh as read
  ne,            \* mesh->GetNE() now
  ndofs,         \* fespace->GetNDofs()
  ref_levels,    \* line 149
  l,             \* loop counter of line 151
  ess_bdr,       \* Array<int> of line 181
  pull_force,    \* Vector of line 200, values times PullDen
  f,             \* VectorArrayCoefficient of line 194
  Cmat,          \* C.mat, the material tensor table of line 221
  i,             \* loop counter of line 222
  x,             \* GridFunction x at the tracked vdofs
  xRec,          \* x as RecoverFEMSolution left it (line 268)
  nodes0,        \* mesh nodes before step 14, at the tracked vdofs
  nodes,         \* mesh nodes now
  asmC,          \* the table as a->Assemble() read it
  Stress,        \* the CalcStressSolids field: vdim, size, what it read
  out,           \* what was written to files and sockets
  oob,           \* out-of-bounds accesses made so far
  elAttr,        \* SpecHist: mesh->GetAttribute(i), i = 0..NE-1
  bdrAttr,       \* SpecHist: mesh->GetBdrAttribute(i), i = 0..NBE-1
  printed,       \* SpecHist: the counts printed by each pass
  allocs,        \* SpecHist: new[] calls of each pass
  frees,         \* SpecHist: delete[] calls of each pass
  elmntType,     \* SpecHist: loop counter of line 101
  mat,           \* SpecBuild: the material constants E, nu = p/q
  tensor,        \* SpecBuild: the tensor built from mat
  patch,         \* SpecRecover: a row of elements of the stress space
  recovered,     \* SpecRecover: the elements whose stress is written
  written        \* SpecRecover: slot -> the elements that wrote it

driverVars == <<pc, dim, nurbs, visualization, attrMax, bdrAttrMax, ne0, ne,
                ndofs, ref_levels, l, ess_bdr, pull_force, f, Cmat, i, x, xRec,
                nodes0, nodes, asmC, Stress, out, oob>>
histVars == <<elAttr, bdrAttr, printed, allocs, frees, elmntType>>
buildVars == <<mat, tensor>>
recoverVars == <<patch, recovered, written>>
vars == <<driverVars, histVars, buildVars, recoverVars>>

(***************************************************************************)
(* Bounds of the model.                                                    *)
(***************************************************************************)
MaxAttr == 3        \* largest element attribute id of a mesh
MaxBdrAttr == 3     \* largest boundary attribute id of a mesh
MaxElems == 2       \* elements of the mesh file (Spec, SpecHist)
MaxBdrElems == 2    \* boundary elements of the mesh file (SpecHist)
MaxNDofs == 3       \* scalar dofs of the displacement space
MaxTracked == 2     \* vdofs of x and of the nodes that are followed
MaxGarbage == 1     \* an uninitialised int reads as 0..MaxGarbage
MaxNE == 5002       \* element counts of SpecRefine
MaxE == 3           \* Young's moduli of SpecBuild
MaxQ == 5           \* denominators of Poisson's ratio in SpecBuild
MaxPatch == 3       \* elements of the patch of SpecRecover
MaxOrder == 2       \* polynomial orders of SpecRecover

(***************************************************************************)
(* Constants of the program.                                               *)
(***************************************************************************)
NumMaterials == 2       \* E.size(), lines 81-82
RefineTarget == 5000    \* line 150
dim_strss == 6          \* line 283
TensorSize == 6         \* PWMatrixCoefficient C (6, ...), line 221
E == <<1000000, 200000>>                \* lines 83, 85
nu == <<<<3, 10>>, <<3, 10>>>>          \* lines 84, 86: 0.3 = 3/10
PullNum == 4000                         \* line 202: 4.0e3
PullDen == 200 * 60                     \* line 202: (200.*60.)

Dims == 1..3
None == <<>>
Unset == None
NodeVals == {0, 1}
SolVals == {-1, 0, 2}

RECURSIVE Pow2(_)
Pow2(k) == IF k <= 0 THEN 1 ELSE 2 * Pow2(k - 1)

Tracked == 1..MaxTracked
ZeroVec == [k \in Tracked |-> 0]
AddVec(a, b) == [k \in Tracked |-> a[k] + b[k]]
Negate(a) == [k \in Tracked |-> 0 - a[k]]

(***************************************************************************)
(* The order of the steps of main() from step 3 on.                        *)
(***************************************************************************)
AfterStressLate(p) ==
  CASE p = "refine" -> "refloop"
    [] p = "refloop" -> "fespace"
    [] p = "fespace" -> "ess"
    [] p = "ess" -> "rhs"
    [] p = "rhs" -> "x0"
    [] p = "x0" -> "table"
    [] p = "table" -> "tloop"
    [] p = "tloop" -> "assemble"
    [] p = "assemble" -> "solve"
    [] p = "solve" -> "recover"
    [] p = "recover" -> "nodal"
    [] p = "nodal" -> "save"
    [] p = "save" -> "displace"
    [] p = "displace" -> "stress"
    [] p = "stress" -> "glvis"
    [] p = "glvis" -> "done"
    [] OTHER -> p

After(p) ==
  CASE p = "refine" -> "refloop"
    [] p = "refloop" -> "fespace"
    [] p = "fespace" -> "ess"
    [] p = "ess" -> "rhs"
    [] p = "rhs" -> "x0"
    [] p = "x0" -> "table"
    [] p = "table" -> "tloop"
    [] p = "tloop" -> "assemble"
    [] p = "assemble" -> "solve"
    [] p = "solve" -> "recover"
    [] p = "recover" -> "nodal"
    [] p = "nodal" -> "stress"
    [] p = "stress" -> "save"
    [] p = "save" -> "displace"
    [] p = "displace" -> "glvis"
    [] p = "glvis" -> "done"
    [] OTHER -> p

(***************************************************************************)
(* Step 4: ref_levels = (int)floor(log(5000./NE)/log(2.)/dim).             *)
(* FloorLog2(a, b) is floor(log2(a/b)); dividing by dim and taking the     *)
(* floor is the floor division of that integer by dim.                     *)
(***************************************************************************)
RECURSIVE LogUp(_, _)
LogUp(a, b) == IF 2 * b <= a THEN 1 + LogUp(a, 2 * b) ELSE 0

RECURSIVE LogDown(_, _)
LogDown(a, b) == IF b <= 2 * a THEN 1 ELSE 1 + LogDown(2 * a, b)

FloorLog2(a, b) == IF b <= a THEN LogUp(a, b) ELSE 0 - LogDown(a, b)

FloorDiv(a, d) == IF a >= 0 THEN a \div d ELSE 0 - ((0 - a + d - 1) \div d)

RefLevelsNoDim(NE, d) == FloorLog2(RefineTarget, NE)

RefLevels(NE, d) == FloorDiv(FloorLog2(RefineTarget, NE), d)

ComputeRefLevels ==
  /\ pc = "refine"
  /\ ref_levels' = RefLevels(ne, dim)
  /\ l' = 0
  /\ pc' = After(pc)
  /\ UNCHANGED <<dim, nurbs, visualization, attrMax, bdrAttrMax, ne0, ne, ndofs,
                 ess_bdr, pull_force, f, Cmat, i, x, xRec, nodes0, nodes, asmC,
                 Stress, out, oob>>
  /\ UNCHANGED <<histVars, buildVars, recoverVars>>

\* mesh->UniformRefinement(): every element splits into 2^dim elements.
RefineStep ==
  /\ pc = "refloop"
  /\ l < ref_levels
  /\ ne' = ne * Pow2(dim)
  /\ l' = l + 1
  /\ UNCHANGED <<pc, dim, nurbs, visualization, attrMax, bdrAttrMax, ne0, ndofs,
                 ref_levels, ess_bdr, pull_force, f, Cmat, i, x, xRec, nodes0,
                 nodes, asmC, Stress, out, oob>>
  /\ UNCHANGED <<histVars, buildVars, recoverVars>>

RefineExit ==
  /\ pc = "refloop"
  /\ ~(l < ref_levels)
  /\ pc' = After(pc)
  /\ UNCHANGED <<dim, nurbs, visualization, attrMax, bdrAttrMax, ne0, ne, ndofs,
                 ref_levels, l, ess_bdr, pull_force, f, Cmat, i, x, xRec, nodes0,
                 nodes, asmC, Stress, out, oob>>
  /\ UNCHANGED <<histVars, buildVars, recoverVars>>

\* Step 5: the displacement space; its number of scalar dofs is the library's.
DefineSpace ==
  /\ pc = "fespace"
  /\ ndofs' \in 2..MaxNDofs
  /\ pc' = After(pc)
  /\ UNCHANGED <<dim, nurbs, visualization, attrMax, bdrAttrMax, ne0, ne,
                 ref_levels, l, ess_bdr, pull_force, f, Cmat, i, x, xRec, nodes0,
                 nodes, asmC, Stress, out, oob>>
  /\ UNCHANGED <<histVars, buildVars, recoverVars>>

\* Step 6: ess_bdr = 0; ess_bdr[0] = 1.
EssBdr ==
  /\ pc = "ess"
  /\ ess_bdr' = [b \in 0..(bdrAttrMax - 1) |-> IF b = 0 THEN 1 ELSE 0]
  /\ pc' = After(pc)
  /\ UNCHANGED <<dim, nurbs, visualization, attrMax, bdrAttrMax, ne0, ne, ndofs,
                 ref_levels, l, pull_force, f, Cmat, i, x, xRec, nodes0, nodes,
                 asmC, Stress, out, oob>>
  /\ UNCHANGED <<histVars, buildVars, recoverVars>>

\* f: components 0..dim-2 are the constant 0, component dim-1 is pf by
\* boundary attribute.
TractionOf(pf) ==
  [c \in 0..(dim - 1) |->
     IF c < dim - 1 THEN [b \in 0..(bdrAttrMax - 1) |-> 0] ELSE pf]

\* Step 7: pull_force = 0.0; pull_force(1) = 4.0e3/(200.*60.).  The two
\* expressions that follow on line 202 have no effect.  With one boundary
\* attribute the write is past the end of the vector: the run aborts or the
\* write lands outside the vector.
PullForce ==
  /\ pc = "rhs"
  /\ LET zero == [b \in 0..(bdrAttrMax - 1) |-> 0] IN
     IF 1 < bdrAttrMax
       THEN /\ pull_force' = [zero EXCEPT ![1] = PullNum]
            /\ f' = TractionOf(pull_force')
            /\ pc' = After(pc)
            /\ oob' = oob
       ELSE /\ pull_force' = zero
            /\ oob' = oob \cup {"pull_force(1)"}
            /\ \/ pc' = "crashed" /\ f' = f
               \/ pc' = After(pc) /\ f' = TractionOf(pull_force')
  /\ UNCHANGED <<dim, nurbs, visualization, attrMax, bdrAttrMax, ne0, ne, ndofs,
                 ref_levels, l, ess_bdr, Cmat, i, x, xRec, nodes0, nodes, asmC,
                 Stress, out>>
  /\ UNCHANGED <<histVars, buildVars, recoverVars>>

\* Step 8: x = 0.0.
ZeroSolution ==
  /\ pc = "x0"
  /\ x' = ZeroVec
  /\ pc' = After(pc)
  /\ UNCHANGED <<dim, nurbs, visualization, attrMax, bdrAttrMax, ne0, ne, ndofs,
                 ref_levels, l, ess_bdr, pull_force, f, Cmat, i, xRec, nodes0,
                 nodes, asmC, Stress, out, oob>>
  /\ UNCHANGED <<histVars, buildVars, recoverVars>>

(***************************************************************************)
(* GetElasticityTensor(E, nu, C): the isotropic 6x6 tensor in Voigt        *)
(* order, nu = p/q.  lambda = E nu/((1+nu)(1-2nu)) = Epq/((q+p)(q-2p)) and *)
(* mu = E/(2(1+nu)) = Eq/(2(q+p)); the entries are fractions over the      *)
(* common denominator 2(q+p)(q-2p).                                        *)
(***************************************************************************)
Normal == 1..3
Shear == 4..TensorSize
Voigt == 1..TensorSize

ValidMaterial(Ey, nuy) ==
  /\ Ey > 0
  /\ nuy[2] > 0
  /\ 0 - nuy[2] < nuy[1]
  /\ 2 * nuy[1] < nuy[2]

Lame1(Ey, nuy) ==
  [num |-> Ey * nuy[1] * nuy[2],
   den |-> (nuy[2] + nuy[1]) * (nuy[2] - 2 * nuy[1])]

Lame2(Ey, nuy) == [num |-> Ey * nuy[2], den |-> 2 * (nuy[2] + nuy[1])]

TensorEntries(lamN, muN, den) ==
  [num |-> [r \in Voigt |-> [c \in Voigt |->
              IF r \in Normal /\ c \in Normal
                THEN (IF r = c THEN lamN + 2 * muN ELSE lamN)
                ELSE (IF r = c THEN muN ELSE 0)]],
   den |-> den]

GetElasticityTensorShearCoupled(Ey, nuy) ==
  IF ~ValidMaterial(Ey, nuy) THEN [error |-> "InvalidMaterialParameter"]
  ELSE LET lam == Lame1(Ey, nuy)
           mu == Lame2(Ey, nuy)
           den == 2 * (nuy[2] + nuy[1]) * (nuy[2] - 2 * nuy[1])
           lamN == lam.num * (den \div lam.den)
           muN == mu.num * (den \div mu.den)
       IN [num |-> [r \in Voigt |-> [c \in Voigt |->
                      IF r = c
                        THEN (IF r \in Normal THEN lamN + 2 * muN ELSE muN)
                        ELSE (IF c > r THEN lamN ELSE 0)]],
           den |-> den]

GetElasticityTensor(Ey, nuy) ==
  IF ~ValidMaterial(Ey, nuy) THEN [error |-> "InvalidMaterialParameter"]
  ELSE LET lam == Lame1(Ey, nuy)
           mu == Lame2(Ey, nuy)
           den == 2 * (nuy[2] + nuy[1]) * (nuy[2] - 2 * nuy[1])
       IN TensorEntries(lam.num * (den \div lam.den),
                        mu.num * (den \div mu.den), den)

\* Step 9: PWMatrixCoefficient C (6, mesh->attributes.Max()): one cell per
\* attribute id, cell r-1 for region r, none of them written yet.
CreateTable ==
  /\ pc = "table"
  /\ Cmat' = [k \in 0..(attrMax - 1) |-> Unset]
  /\ i' = 0
  /\ pc' = After(pc)
  /\ UNCHANGED <<dim, nurbs, visualization, attrMax, bdrAttrMax, ne0, ne, ndofs,
                 ref_levels, l, ess_bdr, pull_force, f, x, xRec, nodes0, nodes,
                 asmC, Stress, out, oob>>
  /\ UNCHANGED <<histVars, buildVars, recoverVars>>

\* int attrib = mesh->attributes.Max()-E.size()+i: the size_t arithmetic wraps
\* modulo 2^64 and the conversion to int keeps the low 32 bits, which is the
\* signed difference for these small values.
AttribOf(k) == attrMax - NumMaterials + k

\* One iteration of the loop of lines 222-226.  A negative index is a write
\* before the table: the run aborts or the write lands outside the table.
BuildTableStep ==
  /\ pc = "tloop"
  /\ i < NumMaterials
  /\ LET attrib == AttribOf(i) IN
     IF attrib \in DOMAIN Cmat
       THEN /\ Cmat' = [Cmat EXCEPT
                          ![attrib] = GetElasticityTensor(E[i + 1], nu[i + 1])]
            /\ i' = i + 1
            /\ UNCHANGED <<pc, oob>>
       ELSE /\ Cmat' = Cmat
            /\ oob' = oob \cup {"C.mat[attrib]"}
            /\ \/ pc' = "crashed" /\ i' = i
               \/ pc' = pc /\ i' = i + 1
  /\ UNCHANGED <<dim, nurbs, visualization, attrMax, bdrAttrMax, ne0, ne, ndofs,
                 ref_levels, l, ess_bdr, pull_force, f, x, xRec, nodes0, nodes,
                 asmC, Stress, out>>
  /\ UNCHANGED <<histVars, buildVars, recoverVars>>

TableExit ==
  /\ pc = "tloop"
  /\ ~(i < NumMaterials)
  /\ pc' = After(pc)
  /\ UNCHANGED <<dim, nurbs, visualization, attrMax, bdrAttrMax, ne0, ne, ndofs,
                 ref_levels, l, ess_bdr, pull_force, f, Cmat, i, x, xRec, nodes0,
                 nodes, asmC, Stress, out, oob>>
  /\ UNCHANGED <<histVars, buildVars, recoverVars>>

\* Step 10: a->Assemble() evaluates the integrator, which reads C.
Assemble ==
  /\ pc = "assemble"
  /\ asmC' = Cmat
  /\ pc' = After(pc)
  /\ UNCHANGED <<dim, nurbs, visualization, attrMax, bdrAttrMax, ne0, ne, ndofs,
                 ref_levels, l, ess_bdr, pull_force, f, Cmat, i, x, xRec, nodes0,
                 nodes, Stress, out, oob>>
  /\ UNCHANGED <<histVars, buildVars, recoverVars>>

\* Step 11: PCG or UMFPACK works on A, B, X, which the model does not follow.
Solve ==
  /\ pc = "solve"
  /\ pc' = After(pc)
  /\ UNCHANGED <<dim, nurbs, visualization, attrMax, bdrAttrMax, ne0, ne, ndofs,
                 ref_levels, l, ess_bdr, pull_force, f, Cmat, i, x, xRec, nodes0,
                 nodes, asmC, Stress, out, oob>>
  /\ UNCHANGED <<histVars, buildVars, recoverVars>>

\* Step 12: a->RecoverFEMSolution(X, *b, x): x is what the solver found.
RecoverFEMSolution ==
  /\ pc = "recover"
  /\ x' \in [Tracked -> SolVals]
  /\ xRec' = x'
  /\ pc' = After(pc)
  /\ UNCHANGED <<dim, nurbs, visualization, attrMax, bdrAttrMax, ne0, ne, ndofs,
                 ref_levels, l, ess_bdr, pull_force, f, Cmat, i, nodes0, nodes,
                 asmC, Stress, out, oob>>
  /\ UNCHANGED <<histVars, buildVars, recoverVars>>

\* Step 13: the mesh nodes as a grid function (of the mesh itself for NURBS,
\* made by SetNodalFESpace otherwise); their values are the mesh's.
SetNodalFESpace ==
  /\ pc = "nodal"
  /\ nodes0' \in [Tracked -> NodeVals]
  /\ nodes' = nodes0'
  /\ pc' = After(pc)
  /\ UNCHANGED <<dim, nurbs, visualization, attrMax, bdrAttrMax, ne0, ne, ndofs,
                 ref_levels, l, ess_bdr, pull_force, f, Cmat, i, x, xRec, asmC,
                 Stress, out, oob>>
  /\ UNCHANGED <<histVars, buildVars, recoverVars>>

\* Lines 281-293: the stress space is the nodes' space for a NURBS mesh (its
\* vector dimension is the mesh's) and H1 with dim_strss components otherwise.
StressVDim == IF nurbs THEN dim ELSE dim_strss

\* Line 295: CalcStressSolids Stress(fespace, x, &C, fespace_strss), a field
\* on fespace_strss computed from x and C.
CalcStressSolids ==
  /\ pc = "stress"
  /\ Stress' = [vdim |-> StressVDim, ndofs |-> ndofs,
                size |-> StressVDim * ndofs, C |-> Cmat, x |-> x]
  /\ pc' = After(pc)
  /\ UNCHANGED <<dim, nurbs, visualization, attrMax, bdrAttrMax, ne0, ne, ndofs,
                 ref_levels, l, ess_bdr, pull_force, f, Cmat, i, x, xRec, nodes0,
                 nodes, asmC, out, oob>>
  /\ UNCHANGED <<histVars, buildVars, recoverVars>>

\* Lines 298-306: the VisIt and ParaView collections are saved.
SaveCollections ==
  /\ pc = "save"
  /\ out' = [out EXCEPT !.visit = x, !.paraview = x]
  /\ pc' = After(pc)
  /\ UNCHANGED <<dim, nurbs, visualization, attrMax, bdrAttrMax, ne0, ne, ndofs,
                 ref_levels, l, ess_bdr, pull_force, f, Cmat, i, x, xRec, nodes0,
                 nodes, asmC, Stress, oob>>
  /\ UNCHANGED <<histVars, buildVars, recoverVars>>

\* Step 14: *nodes += x; x *= -1; in this order.
Step14Swapped(n, v) == [x |-> Negate(v), nodes |-> AddVec(n, Negate(v))]

Step14(n, v) == [nodes |-> AddVec(n, v), x |-> Negate(v)]

Displace ==
  /\ pc = "displace"
  /\ nodes' = Step14(nodes, x).nodes
  /\ x' = Step14(nodes, x).x
  /\ out' = [out EXCEPT !.mesh = nodes', !.sol = x']
  /\ pc' = After(pc)
  /\ UNCHANGED <<dim, nurbs, visualization, attrMax, bdrAttrMax, ne0, ne, ndofs,
                 ref_levels, l, ess_bdr, pull_force, f, Cmat, i, xRec, nodes0,
                 asmC, Stress, oob>>
  /\ UNCHANGED <<histVars, buildVars, recoverVars>>

\* Steps 15 and 16: the mesh and x go to GLVis when visualization is on.
GLVis ==
  /\ pc = "glvis"
  /\ \/ visualization /\ out' = [out EXCEPT !.glvis = x, !.glvisMesh = nodes]
     \/ ~visualization /\ out' = out
  /\ pc' = After(pc)
  /\ UNCHANGED <<dim, nurbs, visualization, attrMax, bdrAttrMax, ne0, ne, ndofs,
                 ref_levels, l, ess_bdr, pull_force, f, Cmat, i, x, xRec, nodes0,
                 nodes, asmC, Stress, oob>>
  /\ UNCHANGED <<histVars, buildVars, recoverVars>>

HistIdle ==
  /\ elAttr = <<>>
  /\ bdrAttr = <<>>
  /\ printed = <<>>
  /\ allocs = <<>>
  /\ frees = <<>>
  /\ elmntType = 0

BuildIdle == mat = None /\ tensor = None

RecoverIdle == patch = None /\ recovered = {} /\ written = <<>>

\* main() before step 4, the locals of the later steps not yet made.
DriverStart ==
  /\ ne = ne0
  /\ ndofs = 0
  /\ ref_levels = 0
  /\ l = 0
  /\ ess_bdr = <<>>
  /\ pull_force = <<>>
  /\ f = <<>>
  /\ Cmat = <<>>
  /\ i = 0
  /\ x = None
  /\ xRec = None
  /\ nodes0 = None
  /\ nodes = None
  /\ asmC = None
  /\ Stress = None
  /\ out = [visit |-> None, paraview |-> None, mesh |-> None, sol |-> None,
            glvis |-> None, glvisMesh |-> None]
  /\ oob = {}

Init ==
  /\ pc = "refine"
  /\ dim \in Dims
  /\ nurbs \in BOOLEAN
  /\ visualization \in BOOLEAN
  /\ attrMax \in 1..MaxAttr
  /\ bdrAttrMax \in 1..MaxBdrAttr
  /\ ne0 \in 1..MaxElems
  /\ DriverStart
  /\ HistIdle
  /\ BuildIdle
  /\ RecoverIdle

Next ==
  \/ ComputeRefLevels
  \/ RefineStep
  \/ RefineExit
  \/ DefineSpace
  \/ EssBdr
  \/ PullForce
  \/ ZeroSolution
  \/ CreateTable
  \/ BuildTableStep
  \/ TableExit
  \/ Assemble
  \/ Solve
  \/ RecoverFEMSolution
  \/ SetNodalFESpace
  \/ CalcStressSolids
  \/ SaveCollections
  \/ Displace
  \/ GLVis

Spec == Init /\ [][Next]_vars

(***************************************************************************)
(* Step 4 alone, for element counts on both sides of the target.           *)
(***************************************************************************)
InitRefine ==
  /\ pc = "refine"
  /\ dim \in Dims
  /\ nurbs = FALSE
  /\ visualization = FALSE
  /\ attrMax = 1
  /\ bdrAttrMax = 1
  /\ ne0 \in 1..MaxNE
  /\ DriverStart
  /\ HistIdle
  /\ BuildIdle
  /\ RecoverIdle

NextRefine ==
  \/ ComputeRefLevels
  \/ RefineStep
  \/ RefineExit

SpecRefine == InitRefine /\ [][NextRefine]_vars

(***************************************************************************)
(* Lines 101-125: the attribute histogram, one pass over the elements and  *)
(* one over the boundary elements.                                         *)
(***************************************************************************)
RECURSIVE SeqMax(_)
SeqMax(sq) ==
  IF Len(sq) = 1 THEN sq[1]
  ELSE LET m == SeqMax(Tail(sq)) IN IF sq[1] > m THEN sq[1] ELSE m

\* Lines 110-116: the scan of checkAttrib = from..sizeEnd for one element.
RECURSIVE ScanAttrib(_, _, _, _)
ScanAttrib(arr, attrib, from, sizeEnd) ==
  IF from > sizeEnd THEN arr
  ELSE ScanAttrib(IF attrib = from THEN [arr EXCEPT ![from] = @ + 1] ELSE arr,
                  attrib, from + 1, sizeEnd)

\* Lines 107-117: the elements from position k on.
RECURSIVE CountLoop(_, _, _, _)
CountLoop(arr, attrs, k, sizeEnd) ==
  IF k > Len(attrs) THEN arr
  ELSE CountLoop(ScanAttrib(arr, attrs[k], 0, sizeEnd), attrs, k + 1, sizeEnd)

\* Lines 104-105: new int [sizeEnd+1], then std::fill over the first sizeEnd
\* cells; cell sizeEnd keeps whatever the allocation held.
Filled(sizeEnd, g) == [k \in 0..sizeEnd |-> IF k < sizeEnd THEN 0 ELSE g]

HistogramPass ==
  /\ pc = "hist"
  /\ elmntType < 2
  /\ LET sizeEnd == IF elmntType = 0 THEN attrMax ELSE bdrAttrMax
         attrs == IF elmntType = 0 THEN elAttr ELSE bdrAttr
     IN \E g \in 0..MaxGarbage :
          printed' = [printed EXCEPT
                        ![elmntType] = CountLoop(Filled(sizeEnd, g), attrs, 1, sizeEnd)]
  /\ allocs' = [allocs EXCEPT ![elmntType] = @ + 1]
  /\ frees' = [frees EXCEPT ![elmntType] = @ + 1]
  /\ elmntType' = elmntType + 1
  /\ UNCHANGED <<elAttr, bdrAttr>>
  /\ UNCHANGED <<driverVars, buildVars, recoverVars>>

HistogramExit ==
  /\ pc = "hist"
  /\ ~(elmntType < 2)
  /\ pc' = "refine"
  /\ UNCHANGED <<dim, nurbs, visualization, attrMax, bdrAttrMax, ne0, ne, ndofs,
                 ref_levels, l, ess_bdr, pull_force, f, Cmat, i, x, xRec, nodes0,
                 nodes, asmC, Stress, out, oob>>
  /\ UNCHANGED <<histVars, buildVars, recoverVars>>

AttrSeqs(maxLen, maxAttr) == UNION {[1..n -> 1..maxAttr] : n \in 1..maxLen}

InitHist ==
  /\ pc = "hist"
  /\ elAttr \in AttrSeqs(MaxElems, MaxAttr)
  /\ bdrAttr \in AttrSeqs(MaxBdrElems, MaxBdrAttr)
  /\ attrMax = SeqMax(elAttr)
  /\ bdrAttrMax = SeqMax(bdrAttr)
  /\ ne0 = Len(elAttr)
  /\ printed = [t \in 0..1 |-> None]
  /\ allocs = [t \in 0..1 |-> 0]
  /\ frees = [t \in 0..1 |-> 0]
  /\ elmntType = 0
  /\ dim = 2
  /\ nurbs = FALSE
  /\ visualization = FALSE
  /\ DriverStart
  /\ BuildIdle
  /\ RecoverIdle

NextHist ==
  \/ HistogramPass
  \/ HistogramExit

SpecHist == InitHist /\ [][NextHist]_vars

(***************************************************************************)
(* GetElasticityTensor alone, for materials inside and outside the bounds  *)
(* E > 0 and -1 < nu < 1/2.                                                *)
(***************************************************************************)
BuildTensor ==
  /\ pc = "build"
  /\ tensor' = GetElasticityTensor(mat.E, <<mat.p, mat.q>>)
  /\ pc' = "built"
  /\ UNCHANGED <<dim, nurbs, visualization, attrMax, bdrAttrMax, ne0, ne, ndofs,
                 ref_levels, l, ess_bdr, pull_force, f, Cmat, i, x, xRec, nodes0,
                 nodes, asmC, Stress, out, oob>>
  /\ UNCHANGED <<mat, histVars, recoverVars>>

InitBuild ==
  /\ pc = "build"
  /\ mat \in [E : 0..MaxE, p : (0 - MaxQ)..MaxQ, q : 1..MaxQ]
  /\ tensor = None
  /\ dim = 3
  /\ nurbs = FALSE
  /\ visualization = FALSE
  /\ attrMax = 1
  /\ bdrAttrMax = 1
  /\ ne0 = 1
  /\ DriverStart
  /\ HistIdle
  /\ RecoverIdle

NextBuild == BuildTensor

SpecBuild == InitBuild /\ [][NextBuild]_vars

(***************************************************************************)
(* The stress field on a row of elements e = 1..n of the stress space,     *)
(* each element sharing a face with the next.  The dofs are those met      *)
(* along one line of vertices through the row.                             *)
(***************************************************************************)
\* H1_FECollection(order, dim): the vertex between two elements is one dof
\* of both; an element of order k has k-1 dofs of its own.  The NURBS space
\* of the nodes: the k+1 basis functions of an element overlap its
\* neighbours.
ElementDofs(e) ==
  IF patch.nurbs
    THEN e..(e + patch.order)
    ELSE {e, e + 1} \cup
         {patch.n + 1 + (e - 1) * (patch.order - 1) + j : j \in 1..(patch.order - 1)}

PatchVDim == IF patch.nurbs THEN patch.dim ELSE dim_strss

PatchSlots == (UNION {ElementDofs(e) : e \in 1..patch.n}) \X (0..(PatchVDim - 1))

ElementSlots(e) == ElementDofs(e) \X (0..(PatchVDim - 1))

\* The recovery of one element: its stress, from its own material tensor,
\* goes to the slots of its dofs.
RecoverElement ==
  /\ pc = "stress"
  /\ \E e \in (1..patch.n) \ recovered :
       /\ recovered' = recovered \cup {e}
       /\ written' = [s \in PatchSlots |->
                        IF s \in ElementSlots(e) THEN written[s] \cup {e}
                        ELSE written[s]]
  /\ UNCHANGED <<patch, driverVars, histVars, buildVars>>

InitRecover ==
  /\ pc = "stress"
  /\ patch \in {q \in [n : 1..MaxPatch, order : 1..MaxOrder, nurbs : BOOLEAN,
                       dim : Dims, attr : AttrSeqs(MaxPatch, NumMaterials)] :
                  Len(q.attr) = q.n}
  /\ recovered = {}
  /\ written = [s \in PatchSlots |-> {}]
  /\ dim = patch.dim
  /\ nurbs = patch.nurbs
  /\ visualization = FALSE
  /\ attrMax = SeqMax(patch.attr)
  /\ bdrAttrMax = 1
  /\ ne0 = patch.n
  /\ DriverStart
  /\ HistIdle
  /\ BuildIdle

NextRecover == RecoverElement

SpecRecover == InitRecover /\ [][NextRecover]_vars

(***************************************************************************)
(* The claims.                                                             *)
(***************************************************************************)

\* C1: when global stiffness assembly starts, the table holds a tensor
\* written by the tensor builder for every region id 1..M of the mesh,
\* whatever M is (stated for the runs without an out-of-bounds access).
C1_TableCompleteAtAssembly ==
  pc = "assemble" /\ oob = {} => \A r \in 1..attrMax : Cmat[r - 1] # Unset

\* C2: no slot of the recovered stress field is written by two different
\* elements (elements that share a node share no stress dof).
C2_StressSlotsWrittenOnce ==
  pc = "stress" /\ patch # None =>
    \A s \in DOMAIN written : Cardinality(written[s]) <= 1

\* C3: for every mesh, NURBS or not, the size of the stress field is 6 times
\* the number of scalar dofs of the stress space (stated for the runs
\* without an out-of-bounds access).
C3_StressHasSixComponents ==
  Stress # None /\ oob = {} => Stress.size = 6 * Stress.ndofs

\* C4: the table is written only before assembly; the order is table build,
\* assembly, solve, stress recovery; stress recovery reads the table that
\* assembly read and the displacement as RecoverFEMSolution left it.
C4_TableFrozenStressReadsSolved ==
  /\ pc \in {"refine", "refloop", "fespace", "ess", "rhs", "x0", "table", "tloop"}
       => asmC = None
  /\ asmC # None => Cmat = asmC /\ i = NumMaterials
  /\ xRec # None => asmC # None
  /\ Stress # None => xRec # None /\ Stress.C = asmC /\ Stress.x = xRec
  /\ pc \in {"save", "displace", "glvis", "done"} => Stress # None

C4_Witness ==
  /\ pc = "done"
  /\ attrMax = NumMaterials
  /\ Stress # None
  /\ Stress.x # ZeroVec
  /\ \A r \in 1..attrMax : Stress.C[r - 1] # Unset

\* C5: f is zero in every component but the last and on every boundary
\* attribute but 2; on attribute 2 its last component is a negative
\* (downward) constant; boundary attribute 1 and only it is essential
\* (stated for the runs without an out-of-bounds access).
C5_TractionPullsDown ==
  f # <<>> /\ oob = {} =>
    /\ \A c \in 0..(dim - 2) : \A b \in DOMAIN f[c] : f[c][b] = 0
    /\ \A b \in DOMAIN f[dim - 1] : b # 1 => f[dim - 1][b] = 0
    /\ 1 \in DOMAIN f[dim - 1] => f[dim - 1][1] * PullDen < 0
    /\ \A b \in DOMAIN ess_bdr : (ess_bdr[b] = 1) <=> (b = 0)

\* C6: for E > 0 and -1 < nu < 1/2 the tensor is symmetric, has lambda+2mu
\* on the diagonal and lambda off the diagonal of rows/columns 1..3, mu on
\* the diagonal of rows/columns 4..6 and zero elsewhere.
C6_TensorIsIsotropic ==
  pc = "built" /\ ValidMaterial(mat.E, <<mat.p, mat.q>>) =>
    LET lamNum == mat.E * mat.p * mat.q
        lamDen == (mat.q + mat.p) * (mat.q - 2 * mat.p)
        muNum == mat.E * mat.q
        muDen == 2 * (mat.q + mat.p)
        T == tensor.num
        D == tensor.den
    IN /\ D > 0
       /\ \A r \in Voigt : \A c \in Voigt : T[r][c] = T[c][r]
       /\ \A r \in Normal :
            T[r][r] * lamDen * muDen = (lamNum * muDen + 2 * muNum * lamDen) * D
       /\ \A r \in Normal : \A c \in Normal \ {r} : T[r][c] * lamDen = lamNum * D
       /\ \A r \in Shear : \A c \in Shear :
            T[r][c] * muDen = IF r = c THEN muNum * D ELSE 0
       /\ \A r \in Normal : \A c \in Shear : T[r][c] = 0 /\ T[c][r] = 0

C6_Witness ==
  /\ pc = "built"
  /\ ValidMaterial(mat.E, <<mat.p, mat.q>>)
  /\ mat.p < 0
  /\ tensor.num[1][2] < 0
  /\ tensor.num[4][4] > 0

\* C7 as stated: for every NE >= 1 the refined mesh has at most 5000
\* elements and one more refinement would exceed 5000.
C7_RefinedWithinTargetAnyNE ==
  pc = "fespace" =>
    /\ ne = ne0 * Pow2(dim * l)
    /\ ne <= RefineTarget
    /\ ne * Pow2(dim) > RefineTarget

\* C7 amended: for every NE in 1..5000 the refined mesh has at most 5000
\* elements and one more refinement would exceed 5000; for NE > 5000 no
\* refinement is done and the mesh keeps its NE elements.
C7_RefinedWithinTarget ==
  pc = "fespace" =>
    /\ ne = ne0 * Pow2(dim * l)
    /\ ne0 <= RefineTarget => ne <= RefineTarget /\ ne * Pow2(dim) > RefineTarget
    /\ ne0 > RefineTarget => l = 0 /\ ne = ne0

C7_Witness ==
  /\ pc = "fespace"
  /\ ne0 = 625
  /\ dim = 3
  /\ l = 1
  /\ ne = RefineTarget

\* C8: after step 14 the saved nodes are the original nodes plus the solved
\* displacement and the saved solution (also sent to GLVis) is minus the
\* solved displacement, so they add up to the original nodes; the
\* Displacement of the VisIt and ParaView collections is the solved one.
C8_DisplacedMeshInvertedSolution ==
  pc \in {"glvis", "done"} =>
    /\ out.mesh = AddVec(nodes0, xRec)
    /\ out.sol = Negate(xRec)
    /\ \A k \in Tracked : out.mesh[k] + out.sol[k] = nodes0[k]
    /\ out.visit = xRec
    /\ out.paraview = xRec
    /\ pc = "done" /\ visualization => out.glvis = Negate(xRec) /\ out.glvisMesh = out.mesh

C8_Witness ==
  /\ pc = "done"
  /\ visualization
  /\ xRec[1] = 2
  /\ nodes0[1] = 1
  /\ out.mesh[1] = 3
  /\ out.glvis[1] = 0 - 2

\* C9: for every mesh with M >= 1 and MB >= 1 every array access of the
\* driver is within bounds.
C9_AllAccessesInBounds == oob = {}

\* C10: in each pass the count printed for every attribute k in 0..Max is
\* the number of (boundary) elements of attribute k, and the counting array
\* is allocated and released once per pass.
C10_HistogramCounts ==
  pc = "refine" /\ elAttr # <<>> =>
    \A t \in 0..1 :
      LET attrs == IF t = 0 THEN elAttr ELSE bdrAttr
          top == IF t = 0 THEN attrMax ELSE bdrAttrMax
      IN /\ DOMAIN printed[t] = 0..top
         /\ \A k \in 0..top :
              printed[t][k] = Cardinality({j \in 1..Len(attrs) : attrs[j] = k})
         /\ allocs[t] = 1
         /\ frees[t] = 1
====
